---- MODULE Spec2Model ----
(***************************************************************************)
(* Landmark-driven scene composer: the hand game (src/src/hands/hands.ts,  *)
(* which also holds the Game and Target classes) and the ring-mesh loop    *)
(* (src/unnamed/part_000).                                                 *)
(*                                                                         *)
(* Numbers.  A normalized number (a landmark coordinate, a Math.random()   *)
(* draw) is a multiple k/Den of the grid step and is held as the integer   *)
(* k.  A pixel quantity is held in units of 1/Den pixel, so the products   *)
(* "normalized * canvas width" of the code are exact integers here.        *)
(***************************************************************************)
EXTENDS Integers, Sequences, FiniteSets, TLC

\* ------------------------------------------------------------ bounds ----
Den == 2                \* grid steps per unit of a normalized number
MaxScore == 2           \* frames are explored while score < MaxScore
MaxLandmarks == 2       \* landmarks per hand in the bounding-box inputs
MaxMeshes == 2          \* ring-mesh frames are explored while meshesBuilt < MaxMeshes

\* --------------------------------------------------- program constants --
numHands == 2           \* GestureRecognizer option numHands
radius == 5             \* generateNewTarget: const radius
margin == 20            \* generateNewTarget: const margin

\* categoryName of a hand's top gesture
Labels == {"None", "Closed_Fist", "Open_Palm"}

\* Math.min / Math.max
Min(a, b) == IF a < b THEN a ELSE b
Max(a, b) == IF a > b THEN a ELSE b

\* n pixels in units of 1/Den pixel
Px(n) == n * Den

\* a normalized landmark (x = kx/Den, y = ky/Den)
P(kx, ky) == [x |-> kx, y |-> ky]

\* width and height an HTML canvas has when the page sets none
DefaultCanvas == [width |-> 300, height |-> 150]

\* video.videoWidth x video.videoHeight of the camera stream
VideoSizes ==
    { [width |-> 100, height |-> 100],
      [width |-> 100, height |-> 40],
      [width |-> 40, height |-> 100] }

\* Math.random(): a number in [0, 1), here k/Den with k in 0..Den-1
RandomDraws == 0 .. (Den - 1)

\* the landmark lists the recognizer reports for one hand in a frame
HandLandmarkSets ==
    { << P(0, 0), P(Den, Den) >>,      \* a hand spanning the whole frame
      << P(1, 1) >> }                  \* a single point inside the frame

VARIABLES
    game,             \* Game: score, lastHandStates, target, targetModel
    scene,            \* ids of the target meshes that are children of scene
    events,           \* details of the scoreChanged events dispatched so far
    nextId,           \* identity given to the next Target instance
    hitCalls,         \* the calls of Target.hit made by the latest frame
    rendererCanvas,   \* renderer.domElement (game_canvas): width, height
    canvasElement,    \* output_canvas: width, height
    started,          \* "loadeddata" has fired: the frame loop is running
    lastVideoTime,    \* lastVideoTime (-1 before the first frame)
    results,          \* the latest GestureRecognizerResult
    recognized,       \* the latest frame called recognizeForVideo
    fed,              \* frames that followed TriggerSequence so far, or -1
    fedHitTests       \* hit tests of the first hand during those frames

handVars ==
    << game, scene, events, nextId, hitCalls, rendererCanvas, canvasElement,
       started, lastVideoTime, results, recognized, fed, fedHitTests >>

\* the bounding-box computation taken alone
VARIABLES
    bbLandmarks,      \* one hand's landmark list
    bbCanvas,         \* canvasElement: width, height
    bbBox             \* the BoundingBox computed from them, or NoBox

boxVars == << bbLandmarks, bbCanvas, bbBox >>

\* the ring-mesh loop (part_000)
VARIABLES
    faceResults,      \* results.faceLandmarks[0] at the mouth indices, or NoFace
    faceLastVideoTime,\* lastVideoTime of the ring-mesh loop
    curvature,        \* MODIFICATIONS.curvature, in tenths
    mouthMesh,        \* the Mesh held by mouthMesh, or NoMesh
    ringMeshes,       \* ids of the ring meshes that are children of scene
    lines,            \* the debug line meshes that are children of scene
    meshesBuilt,      \* meshes landmarksToMesh has returned so far
    ringStarted,      \* "loadeddata" has fired: predictWebcam has been called
    landmarkerReady,  \* createFaceLandmarker has assigned faceLandmarker
    ringFailed        \* a call of predictWebcam threw: no next frame is requested

meshVars ==
    << faceResults, faceLastVideoTime, curvature, mouthMesh, ringMeshes, lines,
       meshesBuilt, ringStarted, landmarkerReady, ringFailed >>

\* the pin loop (src/src/pin/pin2.ts)
VARIABLES
    faceLandmarker,   \* "undefined", "created" (assigned) or "configured" (setOptions done)
    object,           \* PinnedObject: gltf loaded, visible, matrixAutoUpdate, matrix
    vertexToPin,      \* object.vertexToPin
    pinFrame,         \* what the latest call of detectFaceLandmarks did
    seenFace,         \* a frame since the model loaded had a non-empty landmark set
    pinFailed         \* a call of onVideoFrame threw: no next callback is requested

pinVars == << faceLandmarker, object, vertexToPin, pinFrame, seenFace, pinFailed >>

vars == << handVars, boxVars, meshVars, pinVars >>

\* ------------------------------------------------ bounding box (pure) ---
\* for(const landmark of landmarks) { if (x < minX) minX = x; ... }
RECURSIVE scanLandmarks(_, _, _)
scanLandmarks(landmarks, i, acc) ==
    IF i > Len(landmarks) THEN acc
    ELSE LET l == landmarks[i]
         IN scanLandmarks(landmarks, i + 1,
                [minX |-> IF l.x < acc.minX THEN l.x ELSE acc.minX,
                 maxX |-> IF l.x > acc.maxX THEN l.x ELSE acc.maxX,
                 minY |-> IF l.y < acc.minY THEN l.y ELSE acc.minY,
                 maxY |-> IF l.y > acc.maxY THEN l.y ELSE acc.maxY])

scanStartZero == [minX |-> 0, maxX |-> 0, minY |-> 0, maxY |-> 0]

\* let minX = 1; let maxX = 0; let minY = 1; let maxY = 0;
scanStart == [minX |-> Den, maxX |-> 0, minY |-> Den, maxY |-> 0]

\* the BoundingBox of one hand, in units of 1/Den pixel
boundingBox(landmarks, canvas) ==
    LET m == scanLandmarks(landmarks, 1, scanStart)
        width == m.maxX - m.minX
        height == m.maxY - m.minY
    IN [originX |-> m.minX * canvas.width,
        originY |-> m.minY * canvas.height,
        height |-> height * canvas.height,
        width |-> width * canvas.width]

\* ------------------------------------------------------ Target, Game ----
hitStrict(t, box) ==
    /\ t.x > box.originX /\ t.x < box.originX + box.width
    /\ t.y > box.originY /\ t.y < box.originY + box.height

\* Target.hit: the condition under which "hit" is dispatched and true returned
hit(t, box) ==
    /\ t.x >= box.originX /\ t.x <= box.originX + box.width
    /\ t.y >= box.originY /\ t.y <= box.originY + box.height

\* The fold over one handler's effects works on a record w ("world") of the
\* variables the Game methods touch: game, scene, events, nextId, hitCalls.

addScoreTwice(w, points) ==
    [w EXCEPT !.game.score = @ + points + points,
              !.events = Append(@, w.game.score + points + points)]

\* Game.addScore
addScore(w, points) ==
    [w EXCEPT !.game.score = @ + points,
              !.events = Append(@, w.game.score + points)]

generateNewTargetUnclamped(w, canvas, rx, ry) ==
    LET t == [id |-> w.nextId, x |-> rx * canvas.width, y |-> ry * canvas.height,
              model |-> w.game.targetModel, canvas |-> canvas]
    IN [w EXCEPT !.game.target = t,
                 !.scene = @ \cup {t.id},
                 !.nextId = @ + 1]

\* Game.generateNewTarget with Math.random() = rx/Den and ry/Den.  The Target
\* record keeps the canvas it was spawned on beside the fields of the class.
generateNewTarget(w, canvas, rx, ry) ==
    LET x0 == rx * canvas.width
        y0 == ry * canvas.height
        x == Max(Px(radius + margin), Min(x0, Px(canvas.width - radius - margin)))
        y == Max(Px(radius + margin), Min(y0, Px(canvas.height - radius - margin)))
        t == [id |-> w.nextId, x |-> x, y |-> y,
              model |-> w.game.targetModel, canvas |-> canvas]
    IN [w EXCEPT !.game.target = t,
                 !.scene = @ \cup {t.id},
                 !.nextId = @ + 1]

onHitKeepTarget(w, canvas, rx, ry) == addScore(w, 1)

\* Game.onHit, the listener of the current Target's "hit" event
onHit(w, canvas, rx, ry) ==
    generateNewTarget(
        addScore([w EXCEPT !.scene = @ \ {w.game.target.id}], 1),
        canvas, rx, ry)

TargetHitRespawns(w, canvas, box, i) ==
    LET t == w.game.target
        call(v, r, n) == [v EXCEPT !.hitCalls = Append(@,
                            [hand |-> i, target |-> t, box |-> box,
                             returned |-> r, dispatched |-> n])]
    IN IF hit(t, box)
       THEN { call(onHit(w, canvas, rx, ry), TRUE, 1) :
                 rx \in RandomDraws, ry \in RandomDraws }
       ELSE { call(generateNewTarget(w, canvas, rx, ry), FALSE, 0) :
                 rx \in RandomDraws, ry \in RandomDraws }

\* game.target.hit(box) called for hand i: every world it can leave.  Each call
\* is logged with its target, its box, the value returned and the number of
\* "hit" events dispatched.
TargetHit(w, canvas, box, i) ==
    LET t == w.game.target
        call(v, r, n) == [v EXCEPT !.hitCalls = Append(@,
                            [hand |-> i, target |-> t, box |-> box,
                             returned |-> r, dispatched |-> n])]
    IN IF hit(t, box)
       THEN { call(onHit(w, canvas, rx, ry), TRUE, 1) :
                 rx \in RandomDraws, ry \in RandomDraws }
       ELSE { call(w, FALSE, 0) }

\* game.lastHandStates[i] (undefined when never assigned)
lastHandState(w, i) ==
    IF i <= Len(w.game.lastHandStates) THEN w.game.lastHandStates[i]
    ELSE "undefined"

\* game.lastHandStates[i] = label; the loop runs i upward from the first hand
setLastHandState(w, i, label) ==
    [w EXCEPT !.game.lastHandStates =
        IF i <= Len(@) THEN [@ EXCEPT ![i] = label] ELSE Append(@, label)]

firesOnLevel(w, label, i) == label = "Closed_Fist"

\* the rising-edge test of predictWebcam
fires(w, label, i) ==
    label = "Closed_Fist" /\ lastHandState(w, i) # "Closed_Fist"

storeUnlessFired(w, i, label, fired) ==
    IF fired THEN w ELSE setLastHandState(w, i, label)

\* the unconditional update that ends each iteration of the gesture loop
storeLastHandState(w, i, label, fired) == setLastHandState(w, i, label)

\* for(let i=0; i<results.gestures.length; i++) { ... }: every world the loop
\* can leave, from hand i on
RECURSIVE gestureLoop(_, _, _, _, _)
gestureLoop(w, canvas, res, boundingBoxes, i) ==
    IF i > Len(res.gestures) THEN {w}
    ELSE LET label == res.gestures[i]
             f == fires(w, label, i)
             after == IF f THEN TargetHit(w, canvas, boundingBoxes[i], i)
                      ELSE {w}
         IN UNION { gestureLoop(storeLastHandState(v, i, label, f),
                                canvas, res, boundingBoxes, i + 1) : v \in after }

\* what recognizeForVideo can return: up to n hands, each with the top
\* gesture's categoryName (from `labels`) and its landmark list
HandResults(labels, n) ==
    UNION { [gestures : [1..k -> labels], landmarks : [1..k -> HandLandmarkSets]] :
            k \in 0..n }

\* the results of frames with up to numHands hands
TwoHandResults == HandResults({"None", "Closed_Fist"}, numHands)

\* the results of frames with one tracked hand
OneHandResults == HandResults(Labels, 1)

\* the physical hands in front of the camera
HandIds == {"A", "B"}

\* The results of frames with up to numHands hands, each entry of the result
\* list marked with the physical hand it belongs to (`hands`, which the code
\* does not see): the recognizer reports the hands in any order.
TrackedResults ==
    UNION { { [gestures |-> g, landmarks |-> l, hands |-> h] :
                g \in [1..k -> {"None", "Closed_Fist"}],
                l \in [1..k -> HandLandmarkSets],
                h \in {f \in [1..k -> HandIds] :
                          \A a, b \in 1..k : f[a] = f[b] => a = b} } :
            k \in 0..numHands }

\* the label sequence of the debounce test, fed to one hand frame by frame
TriggerSequence ==
    << "None", "None", "Closed_Fist", "Closed_Fist", "Closed_Fist", "None",
       "Closed_Fist" >>

\* ------------------------------------------------------------- actions --
world == [game |-> game, scene |-> scene, events |-> events,
          nextId |-> nextId, hitCalls |-> hitCalls]

setWorld(w) ==
    /\ game' = w.game
    /\ scene' = w.scene
    /\ events' = w.events
    /\ nextId' = w.nextId
    /\ hitCalls' = w.hitCalls

\* new Game(scene, renderer): score 0, no hand state, a first Target
newGame(canvas, rx, ry) ==
    generateNewTarget(
        [game |-> [score |-> 0, lastHandStates |-> << >>,
                   target |-> [id |-> 0], targetModel |-> FALSE],
         scene |-> {}, events |-> << >>, nextId |-> 1, hitCalls |-> << >>],
        canvas, rx, ry)

\* the hit tests the latest frame made for hand i
hitTestsOf(calls, i) == Cardinality({k \in 1..Len(calls) : calls[k].hand = i})

\* the gesture loop of predictWebcam on the result `res`
gestureFrame(res, canvas, gameCanvas) ==
    LET boundingBoxes == [i \in 1..Len(res.landmarks) |->
                             boundingBox(res.landmarks[i], canvas)]
    IN /\ results' = res
       /\ \E w \in gestureLoop([world EXCEPT !.hitCalls = << >>],
                               gameCanvas, res, boundingBoxes, 1) :
            /\ setWorld(w)
            /\ LET follows == /\ fed >= 0 /\ fed < Len(TriggerSequence)
                              /\ Len(res.gestures) >= 1
                              /\ res.gestures[1] = TriggerSequence[fed + 1]
               IN /\ fed' = IF follows THEN fed + 1 ELSE -1
                  /\ fedHitTests' = IF follows
                                    THEN fedHitTests + hitTestsOf(w.hitCalls, 1)
                                    ELSE 0

\* The body of predictWebcam.  video.currentTime is compared with lastVideoTime
\* for inequality only, so the two abstract times 0 and 1 stand for "the time
\* of the previous frame" and "another time".  When the time has changed,
\* recognizeForVideo returns a result from `family`.
predictWebcamBody(canvas, gameCanvas, family) ==
    /\ game.score < MaxScore
    /\ \/ /\ lastVideoTime >= 0
          /\ recognized' = FALSE
          /\ UNCHANGED lastVideoTime
          /\ gestureFrame(results, canvas, gameCanvas)
       \/ /\ recognized' = TRUE
          /\ lastVideoTime' = IF lastVideoTime = 0 THEN 1 ELSE 0
          /\ \E fresh \in family : gestureFrame(fresh, canvas, gameCanvas)

\* video "loadeddata": size renderer and canvases to the video, run the first frame
LoadedDataOf(family) ==
    /\ ~started
    /\ started' = TRUE
    /\ \E size \in VideoSizes :
         /\ rendererCanvas' = size
         /\ canvasElement' = size
         /\ predictWebcamBody(size, size, family)

\* window.requestAnimationFrame(predictWebcam)
AnimationFrameOf(family) ==
    /\ started
    /\ UNCHANGED << started, rendererCanvas, canvasElement >>
    /\ predictWebcamBody(canvasElement, rendererCanvas, family)

LoadedData == LoadedDataOf(TwoHandResults)

AnimationFrame == AnimationFrameOf(TwoHandResults)

LoadedDataOneHand == LoadedDataOf(OneHandResults)

LoadedDataTracked == LoadedDataOf(TrackedResults)

AnimationFrameTracked == AnimationFrameOf(TrackedResults)

AnimationFrameOneHand == AnimationFrameOf(OneHandResults)

loadModelKeepMesh ==
    /\ ~game.targetModel
    /\ \E rx \in RandomDraws, ry \in RandomDraws :
         setWorld(generateNewTarget(
             [world EXCEPT !.game.targetModel = TRUE],
             rendererCanvas, rx, ry))
    /\ UNCHANGED << rendererCanvas, canvasElement, started, lastVideoTime,
                    results, recognized, fed, fedHitTests >>

\* Game.loadModel after its await: the model has loaded
loadModel ==
    /\ ~game.targetModel
    /\ \E rx \in RandomDraws, ry \in RandomDraws :
         setWorld(generateNewTarget(
             [world EXCEPT !.game.targetModel = TRUE,
                           !.scene = @ \ {game.target.id}],
             rendererCanvas, rx, ry))
    /\ UNCHANGED << rendererCanvas, canvasElement, started, lastVideoTime,
                    results, recognized, fed, fedHitTests >>

\* the module's top level up to `await game.loadModel(...)`
InitHands(fed0) ==
    /\ rendererCanvas = DefaultCanvas
    /\ canvasElement = DefaultCanvas
    /\ started = FALSE
    /\ lastVideoTime = -1
    /\ results = [gestures |-> << >>, landmarks |-> << >>]
    /\ recognized = FALSE
    /\ fed = fed0
    /\ fedHitTests = 0
    /\ \E rx \in RandomDraws, ry \in RandomDraws :
         LET w == newGame(DefaultCanvas, rx, ry)
         IN /\ game = w.game
            /\ scene = w.scene
            /\ events = w.events
            /\ nextId = w.nextId
            /\ hitCalls = w.hitCalls

\* ------------------------------------------------ ring mesh (part_000) --
\* Mesh coordinates (vertex positions, the mesh position) are held in units of
\* 1/(Den * RingLen), in which the doubled landmarks, the bounding-box centre
\* and the mean over the ring are all integers.

MOUTH_POINTS ==
    << <<0, 267>>, <<267, 269>>, <<269, 270>>, <<270, 409>>, <<409, 291>>,
       <<291, 375>>, <<375, 321>>, <<321, 405>>, <<405, 314>>, <<314, 17>>,
       <<17, 84>>, <<84, 181>>, <<181, 91>>, <<91, 146>>, <<146, 61>>,
       <<61, 185>>, <<185, 40>>, <<40, 39>>, <<39, 37>>, <<37, 0>> >>

\* s with v added at its end unless s holds v already: Set.prototype.add
SetAdd(s, v) ==
    IF \E k \in 1..Len(s) : s[k] = v THEN s ELSE Append(s, v)

\* MOUTH_POINTS.forEach(({start, end}) => { add(start); add(end) }), the Set
\* as the sequence of its elements in insertion order
RECURSIVE addMouthPoints(_, _)
addMouthPoints(s, i) ==
    IF i > Len(MOUTH_POINTS) THEN s
    ELSE addMouthPoints(SetAdd(SetAdd(s, MOUTH_POINTS[i][1]), MOUTH_POINTS[i][2]),
                        i + 1)

MOUTH_INDICES == addMouthPoints(<< >>, 1)

MOUTH_INDICES_SORTED ==
    << 15, 16, 14, 17, 13, 18, 12, 19, 11, 0, 10, 1, 9, 2, 8, 3, 7, 4, 6, 5 >>

RingLen == Len(MOUTH_INDICES_SORTED)

\* a normalized landmark with depth
P3(kx, ky, kz) == [x |-> kx, y |-> ky, z |-> kz]

\* The faces the landmarker reports, as the landmarks at the mouth indices: a
\* family of point patterns over the face indices, x and y on the grid of
\* [0, 1], z on the grid of [-1, 0].
MouthIndexSet == {MOUTH_INDICES[k] : k \in 1..Len(MOUTH_INDICES)}

\* a face whose mouth landmarks coincide except the one at face index 0
SkewFace == [idx \in MouthIndexSet |-> IF idx = 0 THEN P3(Den, 0, 0) ELSE P3(0, 0, 0)]

Faces ==
    {SkewFace} \cup
    { [idx \in MouthIndexSet |->
          P3((a * idx + c) % (Den + 1),
             (b * (idx \div 2) + c) % (Den + 1),
             -((idx \div 5 + a + b) % (Den + 1)))] :
      a \in 0..Den, b \in 0..1, c \in 0..1 }

NoFace == << >>

NoMesh == [id |-> 0]

\* faceLandmarks[0][index] for an index the landmark list does not reach
undefined == [undefined |-> TRUE]

\* a face whose landmark list holds the landmark of index 0 only
ShortFace == [idx \in MouthIndexSet |-> IF idx = 0 THEN P3(1, 1, 0) ELSE undefined]

\* what detectForVideo reports as results.faceLandmarks[0]
DetectedFaces == Faces \cup {NoFace, ShortFace}

\* for(const index of MOUTH_INDICES) mouthLandmarks.push(faceLandmarks[0][index])
mouthLandmarksOf(face) ==
    IF face = NoFace THEN << >>
    ELSE [k \in 1..Len(MOUTH_INDICES) |-> face[MOUTH_INDICES[k]]]

\* landmarksCopy[MOUTH_INDICES_SORTED[j]], j counted from 0 as in the code
ringPoint(landmarks, j) == landmarks[MOUTH_INDICES_SORTED[j + 1] + 1]

\* landmarksCopy[MOUTH_INDICES_SORTED[j]] is a landmark: reading .x of it
\* does not throw
isLandmark(landmarks, j) ==
    LET p == MOUTH_INDICES_SORTED[j + 1] + 1
    IN p <= Len(landmarks) /\ "x" \in DOMAIN landmarks[p]

returnsNever(landmarks) == FALSE

\* if(!landmarks?.length) return;
returnsEarly(landmarks) == Len(landmarks) = 0

\* the vertex loop of landmarksToMesh reads .x of the landmark at every ring
\* position: a TypeError as soon as one position holds none
throwsTypeError(landmarks) ==
    \E j \in 0..(RingLen - 1) : ~isLandmark(landmarks, j)

\* [x * 2, y * 2, z * 2] in mesh units
doubled(l) ==
    [x |-> 2 * l.x * RingLen, y |-> 2 * l.y * RingLen, z |-> 2 * l.z * RingLen]

tripleFan(i) == << 0, i + 1, i + 2 >>

\* let [i1, i2, i3] = [SORTED[i], SORTED[i+1], SORTED[i+2]], as ring positions
triple(i) == << i, i + 1, i + 2 >>

\* the vertices pushed by iteration i of the loop of landmarksToMesh
verticesAt(landmarks, i) ==
    [k \in 1..3 |-> doubled(ringPoint(landmarks, triple(i)[k]))]

\* the uvs pushed by iteration i
uvsAt(landmarks, i) ==
    [k \in 1..3 |-> [x |-> ringPoint(landmarks, triple(i)[k]).x,
                     y |-> ringPoint(landmarks, triple(i)[k]).y]]

\* for(let i = 0; i < MOUTH_INDICES_SORTED.length-2; i++): the arrays
\* `vertices` and `uvs` after the loop, three entries per iteration
ringVertices(landmarks) ==
    [n \in 1..(3 * (RingLen - 2)) |->
        verticesAt(landmarks, (n - 1) \div 3)[((n - 1) % 3) + 1]]

ringUvs(landmarks) ==
    [n \in 1..(3 * (RingLen - 2)) |->
        uvsAt(landmarks, (n - 1) \div 3)[((n - 1) % 3) + 1]]

\* `sum` after the iterations i, i+1, ... for one coordinate: x1 in the first
\* iteration, x3 in the last, x2 in every iteration
RECURSIVE ringLoopSum(_, _, _, _)
ringLoopSum(landmarks, axis, i, sum) ==
    IF ~(i < RingLen - 2) THEN sum
    ELSE LET v == verticesAt(landmarks, i)
             first == IF i = 0 THEN v[1][axis] ELSE 0
             last == IF i = RingLen - 3 THEN v[3][axis] ELSE 0
         IN ringLoopSum(landmarks, axis, i + 1, sum + first + last + v[2][axis])

\* the centre of the bounding box of the coordinates cs: (min + max) / 2, an
\* integer in mesh units because every doubled landmark is a multiple of
\* 2 * RingLen
boxCentre(cs) ==
    LET S == {cs[k] : k \in 1..Len(cs)}
        least == CHOOSE m \in S : \A v \in S : m <= v
        greatest == CHOOSE m \in S : \A v \in S : m >= v
    IN (least + greatest) \div 2

\* BufferGeometry.center(): the geometry translated so that the centre of its
\* bounding box is the local origin (three.js)
center(vertices) ==
    LET n == Len(vertices)
        c == [x |-> boxCentre([k \in 1..n |-> vertices[k].x]),
              y |-> boxCentre([k \in 1..n |-> vertices[k].y]),
              z |-> boxCentre([k \in 1..n |-> vertices[k].z])]
    IN [k \in 1..n |-> [x |-> vertices[k].x - c.x,
                         y |-> vertices[k].y - c.y,
                         z |-> vertices[k].z - c.z]]

\* landmarksToMesh for a non-empty landmark array: the Mesh it returns, with
\* the arrays `vertices` and `uvs` it was assembled from, the geometry as
\* center() left it (`centred`) and, once predictWebcam has added the mesh to
\* the scene, the curvature in force in that frame (`curvature`).  The division of sum
\* by MOUTH_INDICES_SORTED.length is exact in mesh units (every doubled
\* landmark is a multiple of RingLen there).
landmarksToMesh(landmarks, id) ==
    LET vertices == ringVertices(landmarks)
        uvs == ringUvs(landmarks)
        sum == [x |-> ringLoopSum(landmarks, "x", 0, 0),
                y |-> ringLoopSum(landmarks, "y", 0, 0),
                z |-> ringLoopSum(landmarks, "z", 0, 0)]
        averagePoint == [x |-> sum.x \div RingLen,
                         y |-> sum.y \div RingLen,
                         z |-> sum.z \div RingLen]
        centred == center(vertices)
    IN [id |-> id,
        landmarks |-> landmarks,
        vertices |-> vertices,
        uvs |-> uvs,
        centred |-> centred,
        geometry |-> centred,
        position |-> averagePoint,
        curvature |-> 0]

\* Math.sin on milliradians, in thousandths: the Taylor polynomial up to the
\* fifth power, after reflection into [-pi/2, pi/2]
sinMilli(a) ==
    LET m == IF a < 0 THEN -a ELSE a
        r == IF m > 1571 THEN 3142 - m ELSE m
        q == IF r < 0 THEN -r ELSE r
        q2 == (q * q) \div 1000
        q3 == (q2 * q) \div 1000
        q5 == (q3 * q2) \div 1000
        p == q - q3 \div 6 + q5 \div 120
        s == IF r < 0 THEN -p ELSE p
    IN IF a < 0 THEN -s ELSE s

\* Math.sin(distX * MODIFICATIONS.curvature) * 0.1 in mesh units, distX in mesh
\* units and the curvature c in tenths
displacement(distX, c) ==
    LET angle == (distX * c * 100) \div (Den * RingLen)
        s == sinMilli(angle)
        d == ((IF s < 0 THEN -s ELSE s) * Den * RingLen) \div 10000
    IN IF s < 0 THEN -d ELSE d

deformsAlways(c) == TRUE

\* if(MODIFICATIONS.curvature && "array" in mesh.geometry.attributes.position)
deforms(c) == c # 0

\* vertices[i+1] = y + Math.sin(distX * curvature) * 0.1 for every vertex of
\* the geometry g of a mesh placed at `position`
displace(g, position, c) ==
    [k \in 1..Len(g) |->
        [g[k] EXCEPT !.y =
            @ + displacement(
                  IF g[k].x - position.x < 0
                  THEN position.x - g[k].x
                  ELSE g[k].x - position.x, c)]]

deformedOnPrevious(m, c) ==
    [m EXCEPT !.geometry =
        displace(IF mouthMesh.id # 0 THEN mouthMesh.geometry ELSE m.geometry,
                 m.position, c)]

\* the curvature block of predictWebcam on the mesh m that landmarksToMesh
\* returned in this frame
deformed(m, c) ==
    [m EXCEPT !.geometry = displace(m.geometry, m.position, c)]

\* the debug line built for each vertex: new Mesh(lineGeometry, lineMaterial)
debugLines(m) ==
    [k \in 1..Len(m.geometry) |->
        [mesh |-> m.id, from |-> m.geometry[k], to |-> m.position]]

\* MODIFICATIONS.curvature as the slider sets it, in tenths
Curvatures == {-10, 0, 3}

sceneAddBeside(children, mesh) == ringMeshes \cup children \cup {mesh.id}

\* scene.add(mesh) on the ring meshes `children` of the scene
sceneAdd(children, mesh) == children \cup {mesh.id}

removeNothing(sc) == sc

\* let textMeshes = scene.children.filter((child) => child instanceof Mesh);
\* for(const textMesh of textMeshes) scene.remove(textMesh);
\* on the Mesh children sc of the scene: the ring mesh and the debug lines
removeMeshes(sc) == [ringMeshes |-> {}, lines |-> << >>]

\* The body of predictWebcam of the ring-mesh loop from "const mouthLandmarks"
\* on, for results.faceLandmarks[0] = face.  landmarksToMesh returns nothing
\* for an empty array, throws when a ring position holds no landmark (the
\* rejection passes through the await of predictWebcam, which then requests
\* no next frame) and otherwise removes every Mesh child of the scene before
\* it returns the new mesh.  mesh.scale and the number labels of DRAW_NUMBERS
\* do not touch the geometry and are left out.
ringFrame(face) ==
    LET mouthLandmarks == mouthLandmarksOf(face)
    IN /\ faceResults' = face
       /\ IF returnsEarly(mouthLandmarks)
          THEN UNCHANGED << mouthMesh, ringMeshes, lines, meshesBuilt, ringFailed >>
          ELSE IF throwsTypeError(mouthLandmarks)
          THEN /\ ringFailed' = TRUE
               /\ UNCHANGED << mouthMesh, ringMeshes, lines, meshesBuilt >>
          ELSE LET built == landmarksToMesh(mouthLandmarks, meshesBuilt + 1)
                   cleared == removeMeshes([ringMeshes |-> ringMeshes,
                                            lines |-> lines])
                   \* scene.remove(mouthMesh)
                   removed == cleared.ringMeshes \ {mouthMesh.id}
                   mesh == [(IF deforms(curvature) THEN deformed(built, curvature)
                             ELSE built)
                            EXCEPT !.curvature = curvature]
               IN /\ meshesBuilt' = meshesBuilt + 1
                  /\ lines' = cleared.lines \o (IF deforms(curvature)
                                                 THEN debugLines(built)
                                                 ELSE << >>)
                  /\ ringMeshes' = sceneAdd(removed, mesh)
                  /\ mouthMesh' = mesh
                  /\ UNCHANGED ringFailed

\* The body of predictWebcam.  When the video time has changed the frame
\* calls faceLandmarker.detectForVideo, a TypeError while faceLandmarker is
\* still unassigned (createFaceLandmarker() is not awaited).
predictWebcamRing ==
    /\ ~ringFailed
    /\ meshesBuilt < MaxMeshes
    /\ \/ /\ faceLastVideoTime >= 0
          /\ UNCHANGED faceLastVideoTime
          /\ ringFrame(faceResults)
       \/ /\ faceLastVideoTime' = IF faceLastVideoTime = 0 THEN 1 ELSE 0
          /\ IF landmarkerReady
             THEN \E face \in DetectedFaces : ringFrame(face)
             ELSE /\ ringFailed' = TRUE
                  /\ UNCHANGED << faceResults, mouthMesh, ringMeshes, lines,
                                  meshesBuilt >>

\* createFaceLandmarker after its awaits: faceLandmarker is assigned
CreateFaceLandmarker ==
    /\ ~landmarkerReady
    /\ landmarkerReady' = TRUE
    /\ UNCHANGED << faceResults, faceLastVideoTime, curvature, mouthMesh,
                    ringMeshes, lines, meshesBuilt, ringStarted, ringFailed >>

\* video "loadeddata" of the ring-mesh loop: the first call of predictWebcam
LoadedDataRing ==
    /\ ~ringStarted
    /\ ringStarted' = TRUE
    /\ predictWebcamRing
    /\ UNCHANGED << curvature, landmarkerReady >>

\* window.requestAnimationFrame(predictWebcam) of the ring-mesh loop
AnimationFrameRing ==
    /\ ringStarted
    /\ predictWebcamRing
    /\ UNCHANGED << ringStarted, curvature, landmarkerReady >>

\* the Curvature slider of the GUI
SetCurvature ==
    /\ \E c \in Curvatures : curvature' = c
    /\ UNCHANGED << faceResults, faceLastVideoTime, mouthMesh, ringMeshes, lines,
                    meshesBuilt, ringStarted, landmarkerReady, ringFailed >>

\* the module top level of the ring-mesh loop
InitRing ==
    /\ faceResults = NoFace
    /\ faceLastVideoTime = -1
    /\ curvature = 0
    /\ mouthMesh = NoMesh
    /\ ringMeshes = {}
    /\ lines = << >>
    /\ meshesBuilt = 0
    /\ ringStarted = FALSE
    /\ landmarkerReady = FALSE
    /\ ringFailed = FALSE

\* ---------------------------------------- pin loop (src/src/pin/pin2.ts) --
\* Lengths of the scene (translations, the last column of a pose matrix) are
\* held in units of 1/(1000 * Den * Den); the other matrix entries are plain
\* numbers.  A 4x4 matrix is the tuple of its rows.

Identity ==
    << <<1, 0, 0, 0>>, <<0, 1, 0, 0>>, <<0, 0, 1, 0>>, <<0, 0, 0, 1>> >>

\* entry (i, j) of the matrix product a x b
MulEntry(a, b, i, j) ==
    a[i][1] * b[1][j] + a[i][2] * b[2][j] + a[i][3] * b[3][j] + a[i][4] * b[4][j]

MulRow(a, b, i) ==
    << MulEntry(a, b, i, 1), MulEntry(a, b, i, 2), MulEntry(a, b, i, 3),
       MulEntry(a, b, i, 4) >>

\* the matrix product a x b
Mul(a, b) == << MulRow(a, b, 1), MulRow(a, b, 2), MulRow(a, b, 3), MulRow(a, b, 4) >>

\* row i of the matrix whose columns follow one another in data
fromArrayRow(data, i) == << data[i], data[4 + i], data[8 + i], data[12 + i] >>

\* new THREE.Matrix4().fromArray(data): data holds the columns one after another
fromArray(data) ==
    << fromArrayRow(data, 1), fromArrayRow(data, 2), fromArrayRow(data, 3),
       fromArrayRow(data, 4) >>

\* new THREE.Matrix4().makeTranslation(x, y, z)
makeTranslation(x, y, z) ==
    << <<1, 0, 0, x>>, <<0, 1, 0, y>>, <<0, 0, 1, z>>, <<0, 0, 0, 1>> >>

premultiply(m, other) == Mul(other, m)

\* matrix.multiply(other): matrix becomes matrix x other
multiply(m, other) == Mul(m, other)

\* matrix.scale(v): the first three columns multiplied by v.x, v.y, v.z
scale(m, v) ==
    LET row(i) == << m[i][1] * v[1], m[i][2] * v[2], m[i][3] * v[3], m[i][4] >>
    IN << row(1), row(2), row(3), row(4) >>

\* the face indices detectFaceLandmarks reads besides object.vertexToPin
NoseTip == 1
PinIndexSet == {NoseTip, 10, 152, 234, 454}

\* object.vertexToPin: 10 from the constructor call, others from the GUI slider
PinVertices == {10, 200}

\* The faces of the pin loop, as the landmarks at the indices read: the pin
\* landmark 200 anywhere on the grid around the nose tip, a face of no width
\* or of full width.
PinFaces ==
    { [idx \in PinIndexSet \cup PinVertices |->
          CASE idx = NoseTip -> P3(1, 1, -1)
            [] idx = 10 -> P3(1, 0, 0)
            [] idx = 152 -> P3(1, Den, -1)
            [] idx = 234 -> P3(0, 1, -1)
            [] idx = 454 -> P3(w, 1, -1)
            [] OTHER -> P3(a, b, -((a + b) % 2))] :
      a \in 0..Den, b \in 0..Den, w \in {0, Den} }

\* transformationMatrices[0].data: a quarter turn about z with a translation,
\* and a stretch along x
MatrixData ==
    { << 0, 1, 0, 0,  -1, 0, 0, 0,  0, 0, 1, 0,  3000, -2000, -40000, 1 >>,
      << 2, 0, 0, 0,  0, 1, 0, 0,  0, 0, 1, 0,  0, 0, 0, 1 >> }

\* A FaceLandmarkerResult: faceLandmarks (no face or one) and
\* facialTransformationMatrixes, an optional field (matrixesDefined tells
\* whether it is there).  The landmarker reports a matrix only for a face.
result(faces, defined, matrixes) ==
    [faceLandmarks |-> faces, matrixesDefined |-> defined,
     facialTransformationMatrixes |-> matrixes]

\* results without transformation matrices
ResultsWithoutMatrix ==
    { result(faces, defined, << >>) :
        faces \in {<< >>} \cup { <<f>> : f \in PinFaces }, defined \in BOOLEAN }

\* results with the matrix of the face
ResultsWithMatrix ==
    { result(<<f>>, TRUE, << [data |-> d] >>) : f \in PinFaces, d \in MatrixData }

Abs(n) == IF n < 0 THEN -n ELSE n

\* faceWidth, faceHeight, faceDepth in units of 1/(4 * Den): the factors 3,
\* 1.25 and 1 become 12, 5 and 4
faceDimensions(face) ==
    [x |-> Abs(face[234].x - face[454].x) * 12,
     y |-> Abs(face[10].y - face[152].y) * 5,
     z |-> Abs(face[10].z - face[152].z) * 4]

displacementUnflipped(vertex, centre, dims) ==
    [x |-> (vertex.x - centre.x) * dims.x * 30000,
     y |-> (vertex.y - centre.y) * dims.y * 30000,
     z |-> (vertex.z - centre.z) * dims.z * 30000]

\* new Vector3(vertex.x - center.x, - vertex.y + center.y, vertex.z - center.z)
\*   .multiply(faceDimensions).multiplyScalar(120)
\* in scene units: 120 / (Den * 4 * Den) = 30000 / (1000 * Den * Den)
displacementOf(vertex, centre, dims) ==
    [x |-> (vertex.x - centre.x) * dims.x * 30000,
     y |-> (- vertex.y + centre.y) * dims.y * 30000,
     z |-> (vertex.z - centre.z) * dims.z * 30000]

\* ndcX = (vertex.x * 2) - 1, ndcY = 1 - (vertex.y * 2), z as given; in
\* units of 1/Den
ndcOf(vertex) ==
    [x |-> (vertex.x * 2) - Den, y |-> Den - (vertex.y * 2), z |-> vertex.z]

\* ndc.unproject(scene.camera) (three.js) for the camera of BasicScene:
\* PerspectiveCamera(60, 4/3, 0.01, 5000) at z = 10.  The inverse projection
\* maps (x, y, z) to (x * aspect * t, y * t, -1) / w with t = tan(30 deg) and
\* w = ((far + near) - z * (far - near)) / (2 * far * near); the camera's
\* world matrix then adds its position.  1/w is taken to the thousandth and
\* aspect * t = 0.7698, t = 0.5774 to the ten-thousandth; the result is in
\* scene units.
unproject(ndc) ==
    LET invW == (10000 * Den * 1000) \div (500001 * Den - 499999 * ndc.z)
    IN [x |-> (ndc.x * Den * 7698 * invW) \div 10000,
        y |-> (ndc.y * Den * 5774 * invW) \div 10000,
        z |-> 10 * 1000 * Den * Den - invW * Den * Den]

\* the object before its model has loaded (gltf is null)
NoObject ==
    [gltf |-> FALSE, visible |-> FALSE, matrixAutoUpdate |-> TRUE,
     matrix |-> Identity]

\* the callback of loader.load: this.gltf = gltf, every object of gltf.scene
\* made invisible; the scene's matrix and matrixAutoUpdate as three.js
\* creates them
loaded ==
    [gltf |-> TRUE, visible |-> FALSE, matrixAutoUpdate |-> TRUE,
     matrix |-> Identity]

\* PinnedObject.applyMatrix(matrix, { scale: s })
applyMatrix(obj, matrix, s) ==
    IF ~obj.gltf THEN obj
    ELSE [obj EXCEPT !.matrixAutoUpdate = FALSE,
                     !.matrix = scale(matrix, << s, s, s >>)]

showsAlways(obj, res) ==
    IF obj.gltf THEN [obj EXCEPT !.visible = TRUE] ELSE obj

\* if(object.gltf) traverse: object.visible = landmarks.faceLandmarks.length > 0
shows(obj, res) ==
    IF obj.gltf THEN [obj EXCEPT !.visible = Len(res.faceLandmarks) > 0] ELSE obj

\* transformationMatrices && transformationMatrices.length > 0
hasMatrix(res) ==
    res.matrixesDefined /\ Len(res.facialTransformationMatrixes) > 0

\* what a call of detectFaceLandmarks did: its outcome ("none" before the
\* first call, "skipped" at the early return, "threw", "detected"), the
\* detector's result and, when a pose was computed, its parts
NoPinFrame(outcome) ==
    [outcome |-> outcome, results |-> result(<< >>, FALSE, << >>),
     posed |-> FALSE]

\* the pose block of detectFaceLandmarks for the result res and
\* object.vertexToPin = pin: the locals it computes and the matrix it hands to
\* applyMatrix
poseOf(res, pin) ==
    LET face == res.faceLandmarks[1]
        T == fromArray(res.facialTransformationMatrixes[1].data)
        vertex == face[pin]
        nose == face[NoseTip]
        d == displacementOf(vertex, nose, faceDimensions(face))
        ndc == ndcOf(vertex)
        unprojected == unproject(ndc)
        m1 == multiply(T, makeTranslation(unprojected.x, unprojected.y,
                                          unprojected.z))
        m2 == multiply(m1, makeTranslation(d.x, d.y, d.z))
    IN [pin |-> pin, T |-> T, vertex |-> vertex, center |-> nose,
        dims |-> faceDimensions(face), displacement |-> d, ndc |-> ndc,
        world |-> unprojected, matrix |-> m2]

\* detectFaceLandmarks after detectForVideo has returned res
detected(res) ==
    LET shown == shows(object, res)
    IN /\ seenFace' = (seenFace \/ (object.gltf /\ Len(res.faceLandmarks) > 0))
       /\ UNCHANGED pinFailed
       /\ IF hasMatrix(res)
          THEN LET pose == poseOf(res, vertexToPin)
               IN /\ object' = applyMatrix(shown, pose.matrix, 5)
                  /\ pinFrame' = [outcome |-> "detected", results |-> res,
                                  posed |-> TRUE, pose |-> pose]
          ELSE /\ object' = shown
               /\ pinFrame' = [outcome |-> "detected", results |-> res,
                               posed |-> FALSE]

\* onVideoFrame: detectFaceLandmarks(time), then requestVideoFrameCallback.
\* faceLandmarker is assigned once createFromModelPath has resolved and is put
\* into VIDEO mode with matrices by setOptions afterwards; a frame in between
\* calls detectForVideo on the unconfigured landmarker, which either throws
\* (the callback is then not requested again) or answers without matrices.
onVideoFrame ==
    /\ ~pinFailed
    /\ UNCHANGED << faceLandmarker, vertexToPin >>
    /\ CASE faceLandmarker = "undefined" ->
              /\ pinFrame' = NoPinFrame("skipped")
              /\ UNCHANGED << object, seenFace, pinFailed >>
         [] faceLandmarker = "created" ->
              \/ /\ pinFailed' = TRUE
                 /\ pinFrame' = NoPinFrame("threw")
                 /\ UNCHANGED << object, seenFace >>
              \/ \E res \in ResultsWithoutMatrix : detected(res)
         [] OTHER ->
              \E res \in ResultsWithoutMatrix \cup ResultsWithMatrix : detected(res)

\* runDemo: faceLandmarker = await FaceLandmarker.createFromModelPath(...)
createFromModelPath ==
    /\ faceLandmarker = "undefined"
    /\ faceLandmarker' = "created"
    /\ UNCHANGED << object, vertexToPin, pinFrame, seenFace, pinFailed >>

\* runDemo: await faceLandmarker.setOptions(...)
setOptions ==
    /\ faceLandmarker = "created"
    /\ faceLandmarker' = "configured"
    /\ UNCHANGED << object, vertexToPin, pinFrame, seenFace, pinFailed >>

\* PinnedObject.loadModel: the callback of loader.load
loadModelPin ==
    /\ ~object.gltf
    /\ object' = loaded
    /\ seenFace' = FALSE
    /\ UNCHANGED << faceLandmarker, vertexToPin, pinFrame, pinFailed >>

\* the "Vertex to Pin" slider, added to the GUI when the model has loaded
SetVertexToPin ==
    /\ object.gltf
    /\ \E v \in PinVertices : vertexToPin' = v
    /\ UNCHANGED << faceLandmarker, object, pinFrame, seenFace, pinFailed >>

\* the module top level of pin2.ts, the camera stream acquired
InitPin ==
    /\ faceLandmarker = "undefined"
    /\ object = NoObject
    /\ vertexToPin = 10
    /\ pinFrame = NoPinFrame("none")
    /\ seenFace = FALSE
    /\ pinFailed = FALSE

\* ------------------------------------------------- specifications ----
NoBox == [originX |-> -1, originY |-> -1, height |-> -1, width |-> -1]

\* the bounding-box variables while the game runs
BoxIdle ==
    /\ bbLandmarks = << >>
    /\ bbCanvas = DefaultCanvas
    /\ bbBox = NoBox

\* the game with up to numHands hands; the debounce test is not fed
Init == InitHands(-1) /\ BoxIdle /\ InitRing /\ InitPin

Next ==
    \/ LoadedData /\ UNCHANGED << boxVars, meshVars, pinVars >>
    \/ AnimationFrame /\ UNCHANGED << boxVars, meshVars, pinVars >>
    \/ loadModel /\ UNCHANGED << boxVars, meshVars, pinVars >>

Spec == Init /\ [][Next]_vars

\* the game with one tracked hand, the debounce test followed from frame one
InitDebounce == InitHands(0) /\ BoxIdle /\ InitRing /\ InitPin

NextDebounce ==
    \/ LoadedDataOneHand /\ UNCHANGED << boxVars, meshVars, pinVars >>
    \/ AnimationFrameOneHand /\ UNCHANGED << boxVars, meshVars, pinVars >>
    \/ loadModel /\ UNCHANGED << boxVars, meshVars, pinVars >>

SpecDebounce == InitDebounce /\ [][NextDebounce]_vars

\* the game with up to numHands hands whose identities are followed
NextTracking ==
    \/ LoadedDataTracked /\ UNCHANGED << boxVars, meshVars, pinVars >>
    \/ AnimationFrameTracked /\ UNCHANGED << boxVars, meshVars, pinVars >>
    \/ loadModel /\ UNCHANGED << boxVars, meshVars, pinVars >>

SpecTracking == Init /\ [][NextTracking]_vars

\* The bounding box of one hand as a function of its landmarks: the landmark
\* lists of 1..MaxLandmarks points on the grid, one step outside [0, 1] included
\* (the recognizer reports such points for a hand that leaves the frame).
GridPoints == { P(kx, ky) : kx \in -1..(Den + 1), ky \in -1..(Den + 1) }

LandmarkLists == UNION { [1..n -> GridPoints] : n \in 1..MaxLandmarks }

\* the state of the game while the bounding box is studied alone
HandsIdle ==
    /\ rendererCanvas = DefaultCanvas
    /\ canvasElement = DefaultCanvas
    /\ started = FALSE
    /\ lastVideoTime = -1
    /\ results = [gestures |-> << >>, landmarks |-> << >>]
    /\ recognized = FALSE
    /\ fed = -1
    /\ fedHitTests = 0
    /\ game = newGame(DefaultCanvas, 0, 0).game
    /\ scene = newGame(DefaultCanvas, 0, 0).scene
    /\ events = << >>
    /\ nextId = 2
    /\ hitCalls = << >>

InitBox ==
    /\ HandsIdle
    /\ InitRing
    /\ InitPin
    /\ bbLandmarks \in LandmarkLists
    /\ bbCanvas \in VideoSizes \cup {DefaultCanvas}
    /\ bbBox = NoBox

\* the body of the landmark loop of predictWebcam for one hand
ComputeBoundingBox ==
    /\ bbBox = NoBox
    /\ bbBox' = boundingBox(bbLandmarks, bbCanvas)
    /\ UNCHANGED << bbLandmarks, bbCanvas, handVars, meshVars, pinVars >>

NextBox == ComputeBoundingBox

SpecBox == InitBox /\ [][NextBox]_vars

\* the ring-mesh loop
InitMesh == HandsIdle /\ BoxIdle /\ InitRing /\ InitPin

NextMesh ==
    \/ LoadedDataRing /\ UNCHANGED << handVars, boxVars, pinVars >>
    \/ AnimationFrameRing /\ UNCHANGED << handVars, boxVars, pinVars >>
    \/ SetCurvature /\ UNCHANGED << handVars, boxVars, pinVars >>
    \/ CreateFaceLandmarker /\ UNCHANGED << handVars, boxVars, pinVars >>

SpecMesh == InitMesh /\ [][NextMesh]_vars

\* the pin loop
InitPinLoop == HandsIdle /\ BoxIdle /\ InitRing /\ InitPin

NextPin ==
    \/ onVideoFrame /\ UNCHANGED << handVars, boxVars, meshVars >>
    \/ createFromModelPath /\ UNCHANGED << handVars, boxVars, meshVars >>
    \/ setOptions /\ UNCHANGED << handVars, boxVars, meshVars >>
    \/ loadModelPin /\ UNCHANGED << handVars, boxVars, meshVars >>
    \/ SetVertexToPin /\ UNCHANGED << handVars, boxVars, meshVars >>

SpecPin == InitPinLoop /\ [][NextPin]_vars

\* ============================================================ claims ====

\* a step of the frame loop (loadModel is the only other step, and it alone
\* sets targetModel)
FrameStep == game'.targetModel = game.targetModel

\* C1: for one tracked hand, a frame calls game.target.hit for the hand exactly
\* once if the frame's label is "Closed_Fist" and the label stored for the hand
\* is not "Closed_Fist" (nothing being stored before the first frame), and not
\* at all otherwise; the sequence none, none, trigger, trigger, trigger, none,
\* trigger fires exactly 2 hit tests.
C1_RisingEdge ==
    /\ [][FrameStep =>
            \A i \in 1..numHands :
               hitTestsOf(hitCalls', i) =
                  IF /\ i <= Len(results'.gestures)
                     /\ results'.gestures[i] = "Closed_Fist"
                     /\ (i > Len(game.lastHandStates)
                           \/ game.lastHandStates[i] # "Closed_Fist")
                  THEN 1 ELSE 0]_vars
    /\ [](fed = Len(TriggerSequence) => fedHitTests = 2)

C1_Witness == fed = Len(TriggerSequence) /\ fedHitTests = 2

\* C2: after every frame the label stored for each hand of the frame is the
\* label the hand had in that frame, whether a hit test fired, hit or missed,
\* and whether the result was new or re-processed.
C2_StateIsLabel ==
    started =>
       /\ Len(game.lastHandStates) >= Len(results.gestures)
       /\ \A i \in 1..Len(results.gestures) :
             game.lastHandStates[i] = results.gestures[i]

C2_Witness ==
    /\ started
    /\ Len(hitCalls) = 2
    /\ hitCalls[1].returned
    /\ ~hitCalls[2].returned
    /\ game.lastHandStates = << "Closed_Fist", "Closed_Fist" >>

\* the box test of the claim, written out on a logged call
Inside(c) ==
    /\ c.box.originX <= c.target.x
    /\ c.target.x <= c.box.originX + c.box.width
    /\ c.box.originY <= c.target.y
    /\ c.target.y <= c.box.originY + c.box.height

\* C3: Target.hit(box) returns true and dispatches exactly one "hit" event if
\* and only if originX <= x <= originX + width and originY <= y <= originY +
\* height, all four bounds inclusive; otherwise it returns false and
\* dispatches nothing.
C3_HitInclusive ==
    \A k \in 1..Len(hitCalls) :
       /\ hitCalls[k].returned = Inside(hitCalls[k])
       /\ hitCalls[k].dispatched = IF Inside(hitCalls[k]) THEN 1 ELSE 0

C3_Witness ==
    \E k \in 1..Len(hitCalls) :
       /\ hitCalls[k].target.x = hitCalls[k].box.originX
       /\ hitCalls[k].target.y = hitCalls[k].box.originY
       /\ hitCalls[k].box.width = 0
       /\ hitCalls[k].box.height = 0
       /\ hitCalls[k].returned

\* the number of hits among the logged calls
hitsOf(calls) == Cardinality({k \in 1..Len(calls) : calls[k].returned})

\* C4: every hit adds exactly 1 to the score, dispatches exactly one
\* scoreChanged event whose detail is the new total, removes the hit Target's
\* mesh from the scene and makes game.target a newly created Target; the
\* score is the number of events and the k-th event carries k.
C4_HitEffects ==
    /\ [][FrameStep =>
            /\ game'.score = game.score + hitsOf(hitCalls')
            /\ Len(events') = Len(events) + hitsOf(hitCalls')
            /\ \A k \in 1..Len(hitCalls') :
                  hitCalls'[k].returned =>
                     /\ hitCalls'[k].target.id \notin scene'
                     /\ game'.target.id # hitCalls'[k].target.id
                     /\ game'.target.id >= nextId]_vars
    /\ [](/\ game.score = Len(events)
          /\ \A k \in 1..Len(events) : events[k] = k)

C4_Witness ==
    /\ hitsOf(hitCalls) = 2
    /\ game.score = 2
    /\ events = << 1, 2 >>

\* every Target a state shows: the current one and those the latest frame hit
TargetsSeen == {game.target} \cup {hitCalls[k].target : k \in 1..Len(hitCalls)}

C6_SingleTarget ==
    /\ scene = {game.target.id}
    /\ \A id \in 1..(nextId - 1) : id # game.target.id => id \notin scene

C6_Witness ==
    /\ game.targetModel
    /\ game.target.model
    /\ game.score >= 1
    /\ \E k \in 1..Len(hitCalls) :
          hitCalls[k].returned /\ ~hitCalls[k].target.model

\* the least and the greatest of a non-empty set of integers
Least(S) == CHOOSE m \in S : \A n \in S : m <= n
Greatest(S) == CHOOSE m \in S : \A n \in S : m >= n

Xs(landmarks) == {landmarks[i].x : i \in 1..Len(landmarks)}
Ys(landmarks) == {landmarks[i].y : i \in 1..Len(landmarks)}

\* all x and y of the landmark list lie in [0, 1]
InUnitSquare(landmarks) ==
    \A i \in 1..Len(landmarks) :
       /\ 0 <= landmarks[i].x /\ landmarks[i].x <= Den
       /\ 0 <= landmarks[i].y /\ landmarks[i].y <= Den

\* C7: for a non-empty landmark list with all x and y in [0, 1] the box has
\* originX = min(x) * width, originY = min(y) * height, width = (max(x) -
\* min(x)) * canvas width and height = (max(y) - min(y)) * canvas height; its
\* width and height are non-negative and every landmark, scaled to pixels,
\* lies inside it.
C7_BoxIsMinMax ==
    (bbBox # NoBox /\ InUnitSquare(bbLandmarks)) =>
       /\ bbBox.originX = Least(Xs(bbLandmarks)) * bbCanvas.width
       /\ bbBox.originY = Least(Ys(bbLandmarks)) * bbCanvas.height
       /\ bbBox.width = (Greatest(Xs(bbLandmarks)) - Least(Xs(bbLandmarks)))
                           * bbCanvas.width
       /\ bbBox.height = (Greatest(Ys(bbLandmarks)) - Least(Ys(bbLandmarks)))
                            * bbCanvas.height
       /\ bbBox.width >= 0
       /\ bbBox.height >= 0
       /\ \A i \in 1..Len(bbLandmarks) :
             /\ bbBox.originX <= bbLandmarks[i].x * bbCanvas.width
             /\ bbLandmarks[i].x * bbCanvas.width <= bbBox.originX + bbBox.width
             /\ bbBox.originY <= bbLandmarks[i].y * bbCanvas.height
             /\ bbLandmarks[i].y * bbCanvas.height <= bbBox.originY + bbBox.height

C7_Witness ==
    /\ bbBox # NoBox
    /\ InUnitSquare(bbLandmarks)
    /\ Len(bbLandmarks) = 2
    /\ bbLandmarks[1].x > bbLandmarks[2].x
    /\ bbLandmarks[2].x > 0
    /\ bbLandmarks[1].y < bbLandmarks[2].y
    /\ bbLandmarks[2].y < Den
    /\ bbBox.width > 0
    /\ bbBox.height > 0


RECURSIVE ringSum(_, _, _)
ringSum(landmarks, axis, j) ==
    IF j >= 20 THEN 0
    ELSE 2 * landmarks[MOUTH_INDICES_SORTED[j + 1] + 1][axis] * RingLen
           + ringSum(landmarks, axis, j + 1)

\* C9: the placement position is the mean of the ring points, each counted
\* once, and geometry.center() moves the local origin to that same point, so
\* that local vertex position plus placement position is the vertex's original
\* position (twice its source landmark).
C9_CentredAtMean ==
    mouthMesh.id # 0 =>
       /\ \A axis \in {"x", "y", "z"} :
             20 * mouthMesh.position[axis] = ringSum(mouthMesh.landmarks, axis, 0)
       /\ \A k \in 1..Len(mouthMesh.vertices) : \A axis \in {"x", "y", "z"} :
             mouthMesh.centred[k][axis] + mouthMesh.position[axis]
                = mouthMesh.vertices[k][axis]

\* C10: with curvature 0 every vertex coordinate of the frame's mesh is as
\* landmarksToMesh produced it and no debug line is in the scene.
C10_ZeroCurvatureIdentity ==
    (mouthMesh.id # 0 /\ mouthMesh.curvature = 0) =>
       /\ mouthMesh.geometry = mouthMesh.centred
       /\ mouthMesh.geometry = center(mouthMesh.vertices)
       /\ lines = << >>

C10_Witness ==
    /\ mouthMesh.id = 2
    /\ mouthMesh.curvature = 0
    /\ curvature = 0
    /\ lines = << >>
    /\ \E k \in 1..Len(mouthMesh.geometry) :
          displacement(mouthMesh.geometry[k].x - mouthMesh.position.x, 10) # 0

\* a step of the ring-mesh loop that is a call of predictWebcam (or changes
\* nothing): the loop is alive and neither the slider nor the landmarker moves
RingFrameStep ==
    /\ ~ringFailed
    /\ curvature' = curvature
    /\ landmarkerReady' = landmarkerReady

\* the geometry of the mesh of a frame, from the frame's face and the
\* curvature alone: the centred doubled ring points, each y displaced once
freshGeometry(face, c) ==
    LET fresh == landmarksToMesh(mouthLandmarksOf(face), 0)
    IN [k \in 1..Len(fresh.centred) |->
          [x |-> fresh.centred[k].x,
           y |-> fresh.centred[k].y +
                 (IF c = 0 THEN 0
                  ELSE displacement(
                         IF fresh.centred[k].x - fresh.position.x < 0
                         THEN fresh.position.x - fresh.centred[k].x
                         ELSE fresh.centred[k].x - fresh.position.x, c)),
           z |-> fresh.centred[k].z]]

\* C11: deformation never accumulates: whenever a frame installs a mesh, its
\* vertex positions are those of a mesh freshly built from that frame's
\* landmarks with the displacement of the current curvature applied exactly
\* once, whatever the earlier frames and curvature values were.
C11_NoAccumulation ==
    [][(RingFrameStep /\ mouthMesh' # mouthMesh) =>
          /\ mouthMesh'.landmarks = mouthLandmarksOf(faceResults')
          /\ mouthMesh'.geometry = freshGeometry(faceResults', curvature)]_vars

C11_Witness ==
    /\ meshesBuilt = 2
    /\ mouthMesh.id = 2
    /\ mouthMesh.curvature # 0
    /\ \E k \in 1..Len(mouthMesh.geometry) :
          mouthMesh.geometry[k].y # mouthMesh.centred[k].y

\* C12: after any sequence of frames and curvature changes the scene holds
\* only the debug lines built in the latest mesh-producing frame, at most one
\* per vertex of the current mesh; the lines of earlier frames are gone.
C12_LinesReplaced ==
    /\ mouthMesh.id = 0 => lines = << >>
    /\ mouthMesh.id # 0 =>
          /\ Len(lines) <= Len(mouthMesh.geometry)
          /\ \A k \in 1..Len(lines) : lines[k].mesh = mouthMesh.id
          /\ mouthMesh.curvature = 0 => lines = << >>

C12_Witness ==
    /\ meshesBuilt = 2
    /\ mouthMesh.id = 2
    /\ Len(lines) = Len(mouthMesh.geometry)
    /\ \A k \in 1..Len(lines) : lines[k].mesh = 2

\* C15: in a frame whose face landmark set is empty the ring-mesh loop makes
\* no update and raises no error: no mesh is built, the ring mesh and the
\* debug lines of the scene are those the previous frame left, and the next
\* frame is requested.
C15_EmptyFrameNoUpdate ==
    [][(RingFrameStep /\ landmarkerReady /\ ringStarted' /\ faceResults' = NoFace) =>
          /\ mouthMesh' = mouthMesh
          /\ ringMeshes' = ringMeshes
          /\ lines' = lines
          /\ meshesBuilt' = meshesBuilt
          /\ ~ringFailed']_vars

C15_Witness ==
    /\ ringStarted
    /\ faceResults = NoFace
    /\ mouthMesh.id # 0
    /\ ringMeshes = {mouthMesh.id}
    /\ Len(lines) > 0
    /\ ~ringFailed

\* the landmark array built from the face lacks a landmark the ring refers to
lacksRingLandmark(face) ==
    /\ Len(mouthLandmarksOf(face)) > 0
    /\ \E j \in 0..(RingLen - 1) : ~isLandmark(mouthLandmarksOf(face), j)

\* C16: when the landmark array given to landmarksToMesh is non-empty but
\* lacks a landmark for some ring position, mesh construction is aborted for
\* that frame only: no mesh is produced, no error propagates, the scene keeps
\* its state and the following frames are still processed.
C16_AbortsFrameOnly ==
    [][(RingFrameStep /\ landmarkerReady /\ ringStarted'
          /\ lacksRingLandmark(faceResults')) =>
          /\ mouthMesh' = mouthMesh
          /\ ringMeshes' = ringMeshes
          /\ lines' = lines
          /\ ~ringFailed']_vars

\* C17: in each frame loop, under every interleaving of "detector finished
\* loading" with "first video frame available", no detection runs before the
\* detector is ready and no error terminates the loop.
C17_WaitsForDetector ==
    /\ ~ringFailed
    /\ ~pinFailed
    /\ (ringStarted /\ faceLastVideoTime >= 0) => landmarkerReady

\* a step of the pin loop in which detectFaceLandmarks got a result from the
\* detector (or nothing changes): the loop is alive and the landmarker, the
\* slider and the model stay as they are
PinFrameStep ==
    /\ ~pinFailed
    /\ faceLandmarker' = faceLandmarker
    /\ vertexToPin' = vertexToPin
    /\ object'.gltf = object.gltf
    /\ pinFrame'.outcome = "detected"

\* C13: in every frame processed by detectFaceLandmarks with the object
\* loaded, the object is visible if and only if the frame's landmark set is
\* non-empty; when it is empty no pose is computed or applied; from the model
\* load until the first frame with a non-empty landmark set the object is
\* invisible.
C13_VisibleIffFace ==
    /\ [][(PinFrameStep /\ object.gltf) =>
            /\ object'.visible = (Len(pinFrame'.results.faceLandmarks) > 0)
            /\ Len(pinFrame'.results.faceLandmarks) = 0 =>
                  /\ ~pinFrame'.posed
                  /\ object'.matrix = object.matrix
                  /\ object'.matrixAutoUpdate = object.matrixAutoUpdate]_vars
    /\ []((object.gltf /\ ~seenFace) => ~object.visible)

C13_Witness ==
    /\ object.gltf
    /\ seenFace
    /\ object.matrix # Identity
    /\ pinFrame.outcome = "detected"
    /\ Len(pinFrame.results.faceLandmarks) = 0
    /\ ~object.visible

\* C14: when the detector supplies no TransformationMatrix for a frame
\* (absent or empty list), the object is hidden in that frame and its pose
\* matrix is left unchanged, also when the frame's landmark set is non-empty.
C14_HiddenWithoutMatrix ==
    [][(PinFrameStep /\ object.gltf /\ ~hasMatrix(pinFrame'.results)) =>
          /\ ~object'.visible
          /\ object'.matrix = object.matrix]_vars

\* scale(s) as a matrix
ScaleMatrix(s) ==
    << <<s, 0, 0, 0>>, <<0, s, 0, 0>>, <<0, 0, s, 0>>, <<0, 0, 0, 1>> >>

\* translate(v) as a matrix
TranslateMatrix(v) ==
    << <<1, 0, 0, v.x>>, <<0, 1, 0, v.y>>, <<0, 0, 1, v.z>>, <<0, 0, 0, 1>> >>

\* the detector's matrix of a result, entry (i, j) at position 4 * (j-1) + i
\* of its column-major data
MatrixOf(res) ==
    LET data == res.facialTransformationMatrixes[1].data
    IN << << data[1], data[5], data[9], data[13] >>,
          << data[2], data[6], data[10], data[14] >>,
          << data[3], data[7], data[11], data[15] >>,
          << data[4], data[8], data[12], data[16] >> >>

\* C18: whenever a frame supplies a TransformationMatrix T and a non-empty
\* landmark set and the object is loaded, the object's pose matrix after the
\* frame is T x translate(worldPosition) x translate(displacement) x
\* scale(5), in that order, and matrixAutoUpdate is off and stays off in all
\* later frames; applyMatrix on an object not yet loaded changes nothing.
C18_PoseComposition ==
    /\ [][(PinFrameStep /\ object.gltf /\ hasMatrix(pinFrame'.results)
             /\ Len(pinFrame'.results.faceLandmarks) > 0) =>
            /\ object'.matrix =
                  Mul(Mul(Mul(MatrixOf(pinFrame'.results),
                              TranslateMatrix(pinFrame'.pose.world)),
                          TranslateMatrix(pinFrame'.pose.displacement)),
                      ScaleMatrix(5))
            /\ ~object'.matrixAutoUpdate]_vars
    /\ [][(object.gltf /\ ~object.matrixAutoUpdate) =>
            ~object'.matrixAutoUpdate]_vars
    /\ [](~object.gltf => object = NoObject)

C18_Witness ==
    /\ object.gltf
    /\ ~object.matrixAutoUpdate
    /\ pinFrame.outcome = "detected"
    /\ pinFrame.posed
    /\ pinFrame.pose.T[1][1] = 0
    /\ pinFrame.pose.displacement.x # 0
    /\ pinFrame.pose.displacement.y # 0
    /\ pinFrame.pose.world.x # 0
    /\ object.matrix[1][2] = -5
    /\ object.matrix # Mul(ScaleMatrix(5), pinFrame.pose.matrix)

\* C19: the displacement flips the y sign exactly once: y is (center.y -
\* pin.y) x the face height estimate x the constant, x and z are (pin -
\* center) x the non-negative width and depth estimates x the constant; a pin
\* landmark lower in the image than the center never gets a positive y
\* displacement and the sign of the x displacement is never inverted; the pin
\* landmark's NDC is (2x - 1, 1 - 2y).
C19_FlipsYOnce ==
    pinFrame.posed =>
       LET face == pinFrame.results.faceLandmarks[1]
           pin == face[pinFrame.pose.pin]
           nose == face[1]
           width == Abs(face[234].x - face[454].x) * 12
           height == Abs(face[10].y - face[152].y) * 5
           depth == Abs(face[10].z - face[152].z) * 4
           d == pinFrame.pose.displacement
       IN /\ width >= 0 /\ height >= 0 /\ depth >= 0
          /\ d.x = (pin.x - nose.x) * width * 30000
          /\ d.y = (nose.y - pin.y) * height * 30000
          /\ d.z = (pin.z - nose.z) * depth * 30000
          /\ pin.y > nose.y => d.y <= 0
          /\ pin.y < nose.y => d.y >= 0
          /\ pin.x > nose.x => d.x >= 0
          /\ pin.x < nose.x => d.x <= 0
          /\ pinFrame.pose.ndc.x = 2 * pin.x - Den
          /\ pinFrame.pose.ndc.y = Den - 2 * pin.y

C19_Witness ==
    /\ pinFrame.posed
    /\ pinFrame.pose.vertex.y > pinFrame.pose.center.y
    /\ pinFrame.pose.displacement.y < 0
    /\ pinFrame.pose.vertex.x > pinFrame.pose.center.x
    /\ pinFrame.pose.displacement.x > 0
    /\ pinFrame.pose.ndc.y < 0

\* C20: each tracked hand has one GestureState that follows that hand: a hand
\* that shows the trigger gesture in two consecutive frames gets no hit test
\* in the second, also when another hand appears or disappears in between and
\* the hands are reported at other positions of the result list; so a hit
\* test never fires for a hand because of the previous label of another hand.
C20_StateFollowsHand ==
    [][(FrameStep /\ started) =>
          \A p \in 1..Len(results.gestures) : \A q \in 1..Len(results'.gestures) :
             (/\ results.hands[p] = results'.hands[q]
              /\ results.gestures[p] = "Closed_Fist"
              /\ results'.gestures[q] = "Closed_Fist")
                => hitTestsOf(hitCalls', q) = 0]_vars

\* C21: the ring mesh is replaced, never accumulated: after any sequence of
\* frames the scene holds at most one ring mesh, the one built from the most
\* recent frame that had landmarks (mouthMesh); the mesh of every earlier
\* frame has been removed.
C21_SingleRingMesh ==
    /\ Cardinality(ringMeshes) <= 1
    /\ mouthMesh.id = 0 => ringMeshes = {}
    /\ mouthMesh.id # 0 =>
          /\ ringMeshes = {mouthMesh.id}
          /\ mouthMesh.id = meshesBuilt
          /\ \A id \in 1..(meshesBuilt - 1) : id \notin ringMeshes

C21_Witness ==
    /\ meshesBuilt = 2
    /\ mouthMesh.id = 2
    /\ ringMeshes = {2}
    /\ mouthMesh.landmarks = mouthLandmarksOf(faceResults)

\* C22: every Target instance contributes at most 1 to the score: a Target
\* that has been hit is no longer game.target and is never hit-tested again;
\* when several hands have a rising edge in one frame, each later hand is
\* tested against the Target active at that moment (the replacement if an
\* earlier hand hit), so the score grows by more than 1 in a frame only
\* through distinct Target instances.
C22_OnePointPerTarget ==
    [][FrameStep =>
          /\ \A k \in 1..Len(hitCalls') :
                /\ hitCalls'[k].target =
                      IF k = 1 THEN game.target
                      ELSE IF hitCalls'[k - 1].returned
                           THEN hitCalls'[k].target
                           ELSE hitCalls'[k - 1].target
                /\ hitCalls'[k].target.id >= game.target.id
                /\ hitCalls'[k].returned =>
                      /\ game'.target.id > hitCalls'[k].target.id
                      /\ \A j \in (k + 1)..Len(hitCalls') :
                            hitCalls'[j].target.id > hitCalls'[k].target.id
          /\ game'.target.id >= game.target.id
          /\ game'.score - game.score =
                Cardinality({hitCalls'[k].target.id :
                               k \in {j \in 1..Len(hitCalls') : hitCalls'[j].returned}})]_vars

C22_Witness ==
    /\ Len(hitCalls) = 2
    /\ hitCalls[1].returned
    /\ hitCalls[2].returned
    /\ hitCalls[2].target.id > hitCalls[1].target.id
    /\ game.target.id > hitCalls[2].target.id
    /\ game.score = 2

====
